---------------------------- MODULE Spec2Model ----------------------------
(***************************************************************************)
(* Model of backend/server.py (Global Sales & Risk Analytics): the two     *)
(* collections of the document store, the synthesis call                   *)
(* generate_mock_data with its four persistence awaits, and the analytics  *)
(* handlers that read the store.                                           *)
(*                                                                         *)
(* Conventions.                                                            *)
(*   - Time is counted in whole days since 1970-01-01 (a datetime of the   *)
(*     code is its day number; the time of day is not modelled).           *)
(*   - Money is an integer number of cents once the code has rounded it to *)
(*     two decimals; the unrounded revenue of a draw is in mills (1/1000). *)
(*   - A real number the code computes in floating point is the exact      *)
(*     rational <<numerator, denominator>>, denominator > 0.               *)
(*   - A string that the code compares or sorts is the sequence of its     *)
(*     character codes.                                                    *)
(***************************************************************************)
EXTENDS Integers, Sequences, FiniteSets, TLC

VARIABLES
    now,        \* datetime.now(timezone.utc), as a day number
    sales,      \* db.sales_records, in insertion order
    profiles,   \* db.customer_profiles, in insertion order
    spc,        \* per synthesis call slot: where generate_mock_data stands
    scall,      \* per slot: the number of the call it runs (0: none)
    srecs,      \* per slot: the local list sales_records
    scust,      \* per slot: the local dict customer_profiles (insertion order)
    sscore,     \* per slot: the locals of the scoring loop, one entry per customer
    sdocs,      \* per slot: the local list customer_profile_docs
    sovl,       \* per slot (history): another call was in progress during this one
    calls,      \* number of synthesis calls started so far
    lastDone,   \* (history) the call that completed last: [call, exclusive]
    trendsResp, \* get_sales_trends: the last request, what it read and returned
    forecastResp, \* get_sales_forecast: the last request, its locals and its result
    kpc,        \* get_kpis: where the request in flight stands
    kloc,       \* get_kpis: the locals of the request in flight
    kpiResp,    \* get_kpis: the last response
    rpc,        \* get_regional_summary: where the request in flight stands
    rloc,       \* get_regional_summary: the locals of the request in flight
    regionalResp, \* get_regional_summary: the last response
    cpc,        \* get_country_performance: where the request in flight stands
    cloc,       \* get_country_performance: the locals of the request in flight
    countryResp, \* get_country_performance: the last response
    riskResp    \* get_customer_risk_analysis: the last request and its response

readerVars == <<trendsResp, forecastResp, kpc, kloc, kpiResp, rpc, rloc, regionalResp,
                cpc, cloc, countryResp, riskResp>>

vars == <<now, sales, profiles, spc, scall, srecs, scust, sscore, sdocs, sovl,
          calls, lastDone, readerVars>>

-----------------------------------------------------------------------------
(* Bounds of the model *)

\* range(5000) of the generation loop, scaled down
N == 2
\* number of synthesis calls in one behaviour
MaxCalls == 2

\* the synthesis requests that can be in flight at once
Synths == {1, 2}

-----------------------------------------------------------------------------
(* Sequences *)

RECURSIVE SumSeq(_)
SumSeq(s) == IF s = <<>> THEN 0 ELSE s[1] + SumSeq(Tail(s))

Range(s) == {s[i] : i \in 1..Len(s)}

Min(a, b) == IF a < b THEN a ELSE b
Max(a, b) == IF a > b THEN a ELSE b

RECURSIVE MaxSeq(_)
MaxSeq(s) == IF Len(s) = 1 THEN s[1] ELSE Max(s[1], MaxSeq(Tail(s)))

-----------------------------------------------------------------------------
(* Exact rationals <<n, d>>, d > 0, for the code's floats *)

RECURSIVE GCD(_, _)
GCD(a, b) == IF b = 0 THEN a ELSE GCD(b, a % b)

Abs(x) == IF x < 0 THEN -x ELSE x

\* n/d in lowest terms
Rat(n, d) == LET g == GCD(Abs(n), d) IN <<n \div g, d \div g>>
RInt(n) == <<n, 1>>
\* the least common denominator of a and b
LCD(a, b) == (a[2] \div GCD(a[2], b[2])) * b[2]
\* the numerator of a over the denominator l, a multiple of its own
Over(a, l) == a[1] * (l \div a[2])
RAdd(a, b) == LET l == LCD(a, b) IN Rat(Over(a, l) + Over(b, l), l)
RSub(a, b) == LET l == LCD(a, b) IN Rat(Over(a, l) - Over(b, l), l)
RMul(a, b) ==
    LET g1 == GCD(Abs(a[1]), b[2])
        g2 == GCD(Abs(b[1]), a[2])
    IN  Rat((a[1] \div g1) * (b[1] \div g2), (a[2] \div g2) * (b[2] \div g1))
RLt(a, b) == LET l == LCD(a, b) IN Over(a, l) < Over(b, l)
REq(a, b) == LET l == LCD(a, b) IN Over(a, l) = Over(b, l)
RMin(a, b) == IF RLt(b, a) THEN b ELSE a
RMax(a, b) == IF RLt(a, b) THEN b ELSE a

\* round(q, k) of Python with scale = 10^k, as an integer number of 1/scale:
\* the nearest multiple, a tie going to the even one
round(q, scale) ==
    LET n == q[1] * scale
        d == q[2]
        fl == n \div d
        rem == n - fl * d
    IN  IF 2 * rem < d THEN fl
        ELSE IF 2 * rem > d THEN fl + 1
        ELSE IF fl % 2 = 0 THEN fl ELSE fl + 1


-----------------------------------------------------------------------------
(* Calendar and strings *)

\* the civil date of a day number (proleptic Gregorian, as datetime keeps it)
CivilFromDays(z0) ==
    LET z == z0 + 719468
        era == z \div 146097
        doe == z - era * 146097
        yoe == (doe - doe \div 1460 + doe \div 36524 - doe \div 146096) \div 365
        doy == doe - (365 * yoe + yoe \div 4 - yoe \div 100)
        mp == (5 * doy + 2) \div 153
        d == doy - (153 * mp + 2) \div 5 + 1
        m == IF mp < 10 THEN mp + 3 ELSE mp - 9
        y == yoe + era * 400 + (IF m <= 2 THEN 1 ELSE 0)
    IN  [year |-> y, month |-> m, day |-> d]

\* character codes of "0".."9", "-" and "Q"
Digit(d) == 48 + d
Hyphen == <<45>>
LetterQ == <<81>>

\* str(n) for n >= 0: the decimal digits, no padding
RECURSIVE Dec(_)
Dec(n) == IF n < 10 THEN <<Digit(n)>> ELSE Dec(n \div 10) \o <<Digit(n % 10)>>

\* "%m": two digits, zero-padded
Pad2(n) == <<Digit(n \div 10), Digit(n % 10)>>

\* order_date.strftime("%Y-%m")
strftime_Ym(day) ==
    LET c == CivilFromDays(day) IN Dec(c.year) \o Hyphen \o Pad2(c.month)

\* Python's str < str: by character code, a proper prefix first
RECURSIVE StrLess(_, _)
StrLess(a, b) ==
    IF b = <<>> THEN FALSE
    ELSE IF a = <<>> THEN TRUE
    ELSE IF a[1] # b[1] THEN a[1] < b[1]
    ELSE StrLess(Tail(a), Tail(b))

-----------------------------------------------------------------------------
(* Program constants *)

regions_data == <<"APAC", "EMEA", "Americas">>
payment_statuses == <<"Paid", "Pending", "Overdue", "Partially Paid">>
\* timedelta(days=730): the historical window
HistoryDays == 730
\* min(days_ago, 729)
MaxDaysAgo == 729

-----------------------------------------------------------------------------
(* generate_mock_data: the generation loop *)

\* One iteration's random draws: region, the number of the customer id, the
\* customer name, days_ago, the unrounded revenue (mills) and the status.
DrawOf(r, c, nm, da, rv, st) ==
    [region |-> r, cnum |-> c, name |-> nm, days_ago |-> da, revenue |-> rv,
     status |-> st]

\* f"CUST_{region}_{n}"
customer_id_of(d) == <<d.region, d.cnum>>

\* regions_data[region]["countries"]
countries_of(region) ==
    CASE region = "APAC" ->
            <<"China", "Japan", "India", "Australia", "Singapore", "South Korea">>
      [] region = "EMEA" ->
            <<"Germany", "UK", "France", "Italy", "Spain", "Netherlands">>
      [] OTHER ->
            <<"USA", "Canada", "Brazil", "Mexico", "Argentina", "Chile">>

\* line 134: the country drawn in the region; the draws of the model take it
\* from the number of the customer id
country_of(d) == countries_of(d.region)[(d.cnum % 6) + 1]

\* the SalesRecord of iteration i of call c, drawn as d at time t
SalesRecordOf(c, i, d, t) ==
    LET start_date == t - HistoryDays
        order_date == start_date + Min(d.days_ago, MaxDaysAgo)
    IN  [id |-> <<c, i>>,
         region |-> d.region,
         country |-> country_of(d),
         customer_id |-> customer_id_of(d),
         customer_name |-> d.name,
         order_date |-> order_date,
         revenue |-> round(Rat(d.revenue, 1000), 100),
         payment_status |-> d.status]

\* the index of customer_id cid in the dict cp, 0 if it is no key
IndexOfCustomer(cp, cid) ==
    IF \E k \in 1..Len(cp) : cp[k].customer_id = cid
    THEN CHOOSE k \in 1..Len(cp) : cp[k].customer_id = cid
    ELSE 0

\* AddToProfiles without the test `customer_id not in customer_profiles`
AddToProfiles_NoLookup(cp, rec, d) ==
    Append(cp, [customer_id |-> rec.customer_id,
                customer_name |-> rec.customer_name,
                region |-> rec.region,
                country |-> rec.country,
                orders |-> <<rec>>,
                total_revenue |-> d.revenue,
                overdue_count |-> IF d.status = "Overdue" THEN 1 ELSE 0])

\* lines 191-208: one iteration's update of customer_profiles
AddToProfiles(cp, rec, d) ==
    LET k0 == IndexOfCustomer(cp, rec.customer_id)
        cp1 == IF k0 = 0
               THEN Append(cp, [customer_id |-> rec.customer_id,
                                customer_name |-> rec.customer_name,
                                region |-> rec.region,
                                country |-> rec.country,
                                orders |-> <<>>,
                                total_revenue |-> 0,
                                overdue_count |-> 0])
               ELSE cp
        k == IF k0 = 0 THEN Len(cp1) ELSE k0
    IN  [cp1 EXCEPT
            ![k].orders = Append(@, rec),
            ![k].total_revenue = @ + d.revenue,
            ![k].overdue_count = IF d.status = "Overdue" THEN @ + 1 ELSE @]

\* the loop of lines 132-208 over the draws ds: the list sales_records
RECURSIVE BuildRecords(_, _, _, _)
BuildRecords(c, ds, i, t) ==
    IF i > Len(ds) THEN <<>>
    ELSE <<SalesRecordOf(c, i, ds[i], t)>> \o BuildRecords(c, ds, i + 1, t)

\* the loop of lines 132-208 over the draws ds: the dict customer_profiles
RECURSIVE BuildProfiles(_, _, _, _)
BuildProfiles(recs, ds, i, cp) ==
    IF i > Len(ds) THEN cp
    ELSE BuildProfiles(recs, ds, i + 1, AddToProfiles(cp, recs[i], ds[i]))

-----------------------------------------------------------------------------
(* generate_mock_data: profile derivation and risk scoring *)

\* overdue_ratio = overdue_count / order_count if order_count > 0 else 0
overdue_ratio(overdue_count, order_count) ==
    IF order_count > 0 THEN Rat(overdue_count, order_count) ELSE RInt(0)

\* payment_history_score without the subtraction from 100
payment_history_score_Ratio(overdue_count, order_count) ==
    RMax(RInt(0), RMul(overdue_ratio(overdue_count, order_count), RInt(100)))

\* payment_history_score = max(0, 100 - (overdue_ratio * 100))
payment_history_score(overdue_count, order_count) ==
    RMax(RInt(0),
         RSub(RInt(100), RMul(overdue_ratio(overdue_count, order_count), RInt(100))))

\* recency_factor without the cap min(.., 1.0)
recency_factor_NoCap(days_since_last_order) ==
    RMul(Rat(days_since_last_order, 365), RInt(30))

\* recency_factor = min(days_since_last_order / 365, 1.0) * 30
recency_factor(days_since_last_order) ==
    RMul(RMin(Rat(days_since_last_order, 365), RInt(1)), RInt(30))

\* payment_factor = (100 - payment_history_score) * 0.4
payment_factor(phs) == RMul(RSub(RInt(100), phs), Rat(4, 10))

\* risk_score = recency_factor + payment_factor + volatility_factor
risk_score(days_since_last_order, phs, volatility_factor) ==
    RAdd(RAdd(recency_factor(days_since_last_order), payment_factor(phs)),
         volatility_factor)

\* lines 245-250
risk_category(score) ==
    IF RLt(score, RInt(30)) THEN "Low"
    ELSE IF RLt(score, RInt(60)) THEN "Medium"
    ELSE "High"

\* the locals of one pass of the loop of lines 216-268 over the dict entry e,
\* with the volatility draw v (hundredths) at time t
ScoreOf(e, v, t) ==
    LET order_count == Len(e.orders)
        phs == payment_history_score(e.overdue_count, order_count)
        last_order_date == MaxSeq([k \in 1..order_count |-> e.orders[k].order_date])
        days_since_last_order == t - last_order_date
        score == risk_score(days_since_last_order, phs, Rat(v, 100))
    IN  [customer_id |-> e.customer_id,
         order_count |-> order_count,
         overdue_count |-> e.overdue_count,
         avg_deal_size |-> IF order_count > 0
                           THEN Rat(e.total_revenue, 1000 * order_count)
                           ELSE RInt(0),
         payment_history_score |-> phs,
         last_order_date |-> last_order_date,
         days_since_last_order |-> days_since_last_order,
         volatility_factor |-> v,
         risk_score |-> score,
         risk_category |-> risk_category(score)]

\* lines 252-266: the CustomerProfile document of the dict entry e scored as sc
ProfileDocOf(e, sc) ==
    [customer_id |-> e.customer_id,
     customer_name |-> e.customer_name,
     region |-> e.region,
     country |-> e.country,
     total_revenue |-> round(Rat(e.total_revenue, 1000), 100),
     avg_deal_size |-> round(sc.avg_deal_size, 100),
     payment_history_score |-> round(sc.payment_history_score, 10),
     risk_score |-> round(sc.risk_score, 10),
     risk_category |-> sc.risk_category,
     last_order_date |-> sc.last_order_date,
     days_since_last_order |-> sc.days_since_last_order]

-----------------------------------------------------------------------------
(* generate_mock_data: the call, one action per step between its awaits *)

InProgress(p) == spc[p] # "idle"

\* POST /api/generate-data arrives: the handler runs up to its first await
StartSynthesis(p) ==
    /\ spc[p] = "idle"
    /\ calls < MaxCalls
    /\ calls' = calls + 1
    /\ scall' = [scall EXCEPT ![p] = calls + 1]
    /\ spc' = [spc EXCEPT ![p] = "delete_sales"]
    /\ sovl' = [q \in Synths |->
                  IF q = p THEN \E o \in Synths \ {p} : InProgress(o)
                  ELSE sovl[q] \/ InProgress(q)]
    /\ UNCHANGED <<now, sales, profiles, srecs, scust, sscore, sdocs, lastDone,
                   readerVars>>

\* DeleteSales without the delete: the call adds to the collection
DeleteSales_Keeps(p) ==
    /\ spc[p] = "delete_sales"
    /\ spc' = [spc EXCEPT ![p] = "delete_profiles"]
    /\ UNCHANGED <<now, sales, profiles, scall, srecs, scust, sscore, sdocs, sovl,
                   calls, lastDone,
                   readerVars>>

\* await db.sales_records.delete_many({})
DeleteSales(p) ==
    /\ spc[p] = "delete_sales"
    /\ sales' = <<>>
    /\ spc' = [spc EXCEPT ![p] = "delete_profiles"]
    /\ UNCHANGED <<now, profiles, scall, srecs, scust, sscore, sdocs, sovl, calls,
                   lastDone,
                   readerVars>>

\* DeleteProfiles without the delete: the old profiles stay
DeleteProfiles_Keeps(p) ==
    /\ spc[p] = "delete_profiles"
    /\ spc' = [spc EXCEPT ![p] = "generate"]
    /\ UNCHANGED <<now, sales, profiles, scall, srecs, scust, sscore, sdocs, sovl,
                   calls, lastDone, readerVars>>

\* await db.customer_profiles.delete_many({})
DeleteProfiles(p) ==
    /\ spc[p] = "delete_profiles"
    /\ profiles' = <<>>
    /\ spc' = [spc EXCEPT ![p] = "generate"]
    /\ UNCHANGED <<now, sales, scall, srecs, scust, sscore, sdocs, sovl, calls,
                   lastDone,
                   readerVars>>

\* lines 100-209: the generation loop, its draws taken from DrawSeqs
GenerateFrom(p, DrawSeqs) ==
    /\ spc[p] = "generate"
    /\ \E ds \in DrawSeqs :
          LET recs == BuildRecords(scall[p], ds, 1, now) IN
          /\ srecs' = [srecs EXCEPT ![p] = recs]
          /\ scust' = [scust EXCEPT ![p] = BuildProfiles(recs, ds, 1, <<>>)]
    /\ spc' = [spc EXCEPT ![p] = "insert_sales"]
    /\ UNCHANGED <<now, sales, profiles, scall, sscore, sdocs, sovl, calls, lastDone,
                   readerVars>>

\* InsertSales with the insert run a second time
InsertSales_Again(p) ==
    /\ spc[p] = "insert_sales"
    /\ sales' = sales \o srecs[p] \o srecs[p]
    /\ spc' = [spc EXCEPT ![p] = "derive"]
    /\ UNCHANGED <<now, profiles, scall, srecs, scust, sscore, sdocs, sovl, calls,
                   lastDone, readerVars>>

\* lines 211-212: if sales_records: await db.sales_records.insert_many(...)
InsertSales(p) ==
    /\ spc[p] = "insert_sales"
    /\ sales' = IF srecs[p] # <<>> THEN sales \o srecs[p] ELSE sales
    /\ spc' = [spc EXCEPT ![p] = "derive"]
    /\ UNCHANGED <<now, profiles, scall, srecs, scust, sscore, sdocs, sovl, calls,
                   lastDone,
                   readerVars>>

\* lines 215-268: the scoring loop, its volatility draws taken from Vols
DeriveFrom(p, Vols) ==
    /\ spc[p] = "derive"
    /\ \E vs \in [1..Len(scust[p]) -> Vols] :
          LET scores == [k \in 1..Len(scust[p]) |-> ScoreOf(scust[p][k], vs[k], now)] IN
          /\ sscore' = [sscore EXCEPT ![p] = scores]
          /\ sdocs' = [sdocs EXCEPT ![p] =
                         [k \in 1..Len(scust[p]) |-> ProfileDocOf(scust[p][k], scores[k])]]
    /\ spc' = [spc EXCEPT ![p] = "insert_profiles"]
    /\ UNCHANGED <<now, sales, profiles, scall, srecs, scust, sovl, calls, lastDone,
                   readerVars>>

\* lines 271-274: if customer_profile_docs: await insert_many(...); return
InsertProfiles(p) ==
    /\ spc[p] = "insert_profiles"
    /\ profiles' = IF sdocs[p] # <<>> THEN profiles \o sdocs[p] ELSE profiles
    /\ lastDone' = [call |-> scall[p], exclusive |-> ~sovl[p],
                    records |-> Len(srecs[p]), docs |-> Len(sdocs[p])]
    /\ spc' = [spc EXCEPT ![p] = "idle"]
    /\ scall' = [scall EXCEPT ![p] = 0]
    /\ srecs' = [srecs EXCEPT ![p] = <<>>]
    /\ scust' = [scust EXCEPT ![p] = <<>>]
    /\ sscore' = [sscore EXCEPT ![p] = <<>>]
    /\ sdocs' = [sdocs EXCEPT ![p] = <<>>]
    /\ sovl' = [sovl EXCEPT ![p] = FALSE]
    /\ UNCHANGED <<now, sales, calls,
                   readerVars>>

-----------------------------------------------------------------------------
(* The store under synthesis calls, sequential and overlapping *)

\* 2024-01-15, as a day number
Day0 == 19737
\* the clock advances at most this many days in one behaviour
MaxTicks == 1

\* the volatility draws random.uniform(0, 30), in hundredths
MainVols == {1500}

\* the draws of one iteration: two customers
MainDraws == {DrawOf("APAC", c, "Global Corp", 700, 100004, "Paid") : c \in {1000, 1001}}

\* no request served yet
NoTrends == [served |-> FALSE, period |-> "", region |-> "", sales_data |-> <<>>,
             result |-> <<>>]

NoForecast == [served |-> FALSE, months |-> 0, current_date |-> 0,
               sales_data |-> <<>>, revenues |-> <<>>, fitted |-> FALSE,
               trend_slope |-> <<0, 1>>, trend_intercept |-> <<0, 1>>,
               result |-> <<>>]

NoKpiLocals == [current_date |-> 0, current_sales |-> <<>>, previous_sales |-> <<>>,
                high_risk_customers |-> 0]

NoKpis == [served |-> FALSE, current_sales |-> <<>>, previous_sales |-> <<>>,
           total_revenue |-> 0, total_orders |-> 0, avg_deal_size |-> 0,
           revenue_growth |-> 0, high_risk_customers |-> 0, overdue_payments |-> 0,
           top_regions |-> <<>>]

\* quiet and calls0 are history: no synthesis call was in progress when the
\* request arrived, and the number of calls started by then
NoRegionalLocals == [region |-> 0, sales_data |-> <<>>, regional_summaries |-> <<>>,
                     sales_read |-> <<>>, quiet |-> TRUE, calls0 |-> 0]

\* undisturbed is history: no synthesis call was in progress during the request
NoRegional == [served |-> FALSE, result |-> <<>>, sales_read |-> <<>>,
               undisturbed |-> TRUE]

\* snapshot_customers is history: what the find of the profiles would have
\* returned when the find of the sales ran
NoCountryLocals == [region |-> "", sales_data |-> <<>>, snapshot_customers |-> <<>>]

NoCountry == [served |-> FALSE, region |-> "", sales_data |-> <<>>,
              customer_data |-> <<>>, snapshot_customers |-> <<>>, result |-> <<>>]

NoRisk == [served |-> FALSE, risk_category |-> "", region |-> "", customers |-> <<>>]

NoCall == [call |-> 0, exclusive |-> TRUE, records |-> 0, docs |-> 0]

InitAt(days) ==
    /\ now \in days
    /\ sales = <<>>
    /\ profiles = <<>>
    /\ spc = [p \in Synths |-> "idle"]
    /\ scall = [p \in Synths |-> 0]
    /\ srecs = [p \in Synths |-> <<>>]
    /\ scust = [p \in Synths |-> <<>>]
    /\ sscore = [p \in Synths |-> <<>>]
    /\ sdocs = [p \in Synths |-> <<>>]
    /\ sovl = [p \in Synths |-> FALSE]
    /\ calls = 0
    /\ lastDone = NoCall
    /\ trendsResp = NoTrends
    /\ forecastResp = NoForecast
    /\ kpc = "idle"
    /\ kloc = NoKpiLocals
    /\ kpiResp = NoKpis
    /\ rpc = "idle"
    /\ rloc = NoRegionalLocals
    /\ regionalResp = NoRegional
    /\ cpc = "idle"
    /\ cloc = NoCountryLocals
    /\ countryResp = NoCountry
    /\ riskResp = NoRisk

Init == InitAt({Day0})

\* the clock
Tick ==
    /\ now < Day0 + MaxTicks
    /\ now' = now + 1
    /\ UNCHANGED <<sales, profiles, spc, scall, srecs, scust, sscore, sdocs, sovl,
                   calls, lastDone,
                   readerVars>>

Generate(p) == GenerateFrom(p, [1..N -> MainDraws])
Derive(p) == DeriveFrom(p, MainVols)

Next ==
    \/ \E p \in Synths :
          \/ StartSynthesis(p)
          \/ DeleteSales(p)
          \/ DeleteProfiles(p)
          \/ Generate(p)
          \/ InsertSales(p)
          \/ Derive(p)
          \/ InsertProfiles(p)

Spec == Init /\ [][Next]_vars

-----------------------------------------------------------------------------
(* Claims on the store *)

Quiescent == \A p \in Synths : ~InProgress(p)

ProfilesOf(cid) == {k \in 1..Len(profiles) : profiles[k].customer_id = cid}

\* C1: once a synthesis call that no other call overlapped has completed, the
\* sales collection holds exactly N records, all of them that call's, whatever
\* the store held before and however many calls came before it.
C1_SynthesisReplaces ==
    (Quiescent /\ lastDone.call # 0 /\ lastDone.exclusive) =>
        /\ Len(sales) = N
        /\ \A i \in 1..Len(sales) : sales[i].id[1] = lastDone.call

\* a second exclusive call has completed over the first call's data
C1_Witness ==
    /\ Quiescent
    /\ lastDone.exclusive
    /\ lastDone.call >= 2
    /\ Len(sales) = N
    /\ lastDone.records = N

CustomerIdsResolve ==
    /\ \A k \in 1..Len(profiles) : Cardinality(ProfilesOf(profiles[k].customer_id)) = 1
    /\ \A i \in 1..Len(sales) : Cardinality(ProfilesOf(sales[i].customer_id)) = 1

\* C2 as stated: in every state after a synthesis call has completed, with no
\* synthesis in progress, customer ids are unique among the profiles and every
\* sales record's customer id is that of exactly one profile.
C2_AsStated == (Quiescent /\ lastDone.call # 0) => CustomerIdsResolve

\* C2 amended: the same, after a call that no other synthesis call overlapped.
C2_ExclusiveResolve ==
    (Quiescent /\ lastDone.call # 0 /\ lastDone.exclusive) => CustomerIdsResolve

\* an exclusive call has completed whose records share a customer
C2_Witness ==
    /\ Quiescent
    /\ lastDone.call # 0
    /\ lastDone.exclusive
    /\ Len(sales) = N
    /\ Len(profiles) >= 1
    /\ Len(profiles) < Len(sales)

-----------------------------------------------------------------------------
(* Profile derivation and risk scoring, on one synthesis call *)

\* range(5000) of the generation loop, scaled down, for the scoring claims
NRisk == 4

\* the draws of one iteration: two customers, an order of yesterday or of 130
\* days ago, paid or overdue
RiskDraws ==
    {DrawOf("APAC", c, "Global Corp", da, 100004, st) :
        c \in {1000, 1001}, da \in {729, 600}, st \in {"Paid", "Overdue"}}

\* the volatility draws random.uniform(0, 30), in hundredths
RiskVols == {1500, 2990}

\* the one synthesis call of the behaviour
StartOne == calls = 0 /\ StartSynthesis(1)

GenerateRisk == GenerateFrom(1, [1..NRisk -> RiskDraws])
DeriveRisk == DeriveFrom(1, RiskVols)

NextRisk ==
    \/ StartOne
    \/ DeleteSales(1)
    \/ DeleteProfiles(1)
    \/ GenerateRisk
    \/ InsertSales(1)
    \/ DeriveRisk
    \/ InsertProfiles(1)

SpecRisk == Init /\ [][NextRisk]_vars

\* C9: of two customers scored in one derivation with the same order count,
\* the same days_since_last_order and the same volatility draw, the one with
\* more overdue orders has the strictly smaller payment_history_score and the
\* strictly larger risk_score (both before rounding).
C9_OverdueMonotone ==
    \A p \in Synths : \A i, j \in 1..Len(sscore[p]) :
        LET a == sscore[p][i]
            b == sscore[p][j]
        IN  ( /\ a.order_count = b.order_count
              /\ a.order_count > 0
              /\ a.days_since_last_order = b.days_since_last_order
              /\ a.volatility_factor = b.volatility_factor
              /\ a.overdue_count > b.overdue_count )
            => /\ RLt(a.payment_history_score, b.payment_history_score)
               /\ RLt(b.risk_score, a.risk_score)

\* two customers with two orders each, the same last order and the same draw,
\* one of them with more overdue orders than the other, which has some
C9_Witness ==
    \E i, j \in 1..Len(sscore[1]) :
        /\ sscore[1][i].order_count = 2
        /\ sscore[1][j].order_count = 2
        /\ sscore[1][i].days_since_last_order = sscore[1][j].days_since_last_order
        /\ sscore[1][i].volatility_factor = sscore[1][j].volatility_factor
        /\ sscore[1][i].overdue_count = 2
        /\ sscore[1][j].overdue_count = 1

\* the stored risk_category of a stored risk_score (tenths), by the thresholds
CategoryOfStored(score10) ==
    IF score10 < 300 THEN "Low" ELSE IF score10 < 600 THEN "Medium" ELSE "High"

\* C10: every stored CustomerProfile's risk_category is the category of its
\* stored risk_score: Low exactly below 30, Medium exactly in [30, 60), High
\* exactly from 60.
C10_StoredCategoryAgrees ==
    \A k \in 1..Len(profiles) :
        profiles[k].risk_category = CategoryOfStored(profiles[k].risk_score)

-----------------------------------------------------------------------------
(* get_sales_trends *)

\* db.sales_records.find(query): the records of the region, or all of them
\* when the region parameter is empty or missing (`if region:`)
FindSalesByRegion(region) ==
    IF region = "" THEN sales
    ELSE SelectSeq(sales, LAMBDA r : r.region = region)

\* lines 417-423: the period key of an order date
period_key(period, order_date) ==
    LET c == CivilFromDays(order_date) IN
    IF period = "monthly" THEN strftime_Ym(order_date)
    ELSE IF period = "quarterly"
         THEN Dec(c.year) \o Hyphen \o LetterQ \o Dec((c.month - 1) \div 3 + 1)
         ELSE Dec(c.year)

\* the index of key k in the dict t, 0 if it is no key
IndexOfKey(t, k) ==
    IF \E i \in 1..Len(t) : t[i].period = k
    THEN CHOOSE i \in 1..Len(t) : t[i].period = k
    ELSE 0

\* lines 425-429: one record added to the dict trends
AddToTrends(t, k, revenue) ==
    LET i0 == IndexOfKey(t, k)
        t1 == IF i0 = 0 THEN Append(t, [period |-> k, revenue |-> 0, orders |-> 0])
              ELSE t
        i == IF i0 = 0 THEN Len(t1) ELSE i0
    IN  [t1 EXCEPT ![i].revenue = @ + revenue, ![i].orders = @ + 1]

\* lines 410-429: the dict trends, in insertion order
RECURSIVE BuildTrends(_, _, _, _)
BuildTrends(data, period, i, t) ==
    IF i > Len(data) THEN t
    ELSE BuildTrends(data, period, i + 1,
                     AddToTrends(t, period_key(period, data[i].order_date),
                                 data[i].revenue))

\* x put into the list l, sorted by period, behind the entries not above it
InsertByPeriod(l, x) ==
    LET above == {i \in 1..Len(l) : StrLess(x.period, l[i].period)}
        at == IF above = {} THEN Len(l) + 1
              ELSE CHOOSE i \in above : \A j \in above : i <= j
    IN  SubSeq(l, 1, at - 1) \o <<x>> \o SubSeq(l, at, Len(l))

\* SortByPeriod without the sort: the dict's insertion order
SortByPeriod_None(l) == l

\* trend_list.sort(key=lambda x: x["period"]): a stable sort on str <
RECURSIVE SortByPeriod(_)
SortByPeriod(l) ==
    IF l = <<>> THEN <<>>
    ELSE InsertByPeriod(SortByPeriod(SubSeq(l, 1, Len(l) - 1)), l[Len(l)])

\* lines 406-436: the list returned for the records data
sales_trends(data, period) ==
    IF data = <<>> THEN <<>>
    ELSE SortByPeriod(BuildTrends(data, period, 1, <<>>))

\* GET /api/sales-trends?period=..&region=..
get_sales_trends(period, region) ==
    /\ LET data == FindSalesByRegion(region) IN
       trendsResp' = [served |-> TRUE, period |-> period, region |-> region,
                      sales_data |-> data, result |-> sales_trends(data, period)]
    /\ UNCHANGED <<now, sales, profiles, spc, scall, srecs, scust, sscore, sdocs,
                   sovl, calls, lastDone, forecastResp, kpc, kloc, kpiResp, rpc, rloc,
                   regionalResp, cpc, cloc, countryResp, riskResp>>

-----------------------------------------------------------------------------
(* get_sales_trends on the ledger of one synthesis call *)

\* range(5000) of the generation loop, scaled down, for the trend claims
NTrends == 3

\* 2026-01-14: the ledger then starts on 2024-01-15
TrendsDay == 20467

\* the draws of one iteration: an order of 2024-01-15 (50.00), 2024-01-20
\* (70.00), 2024-02-20, 2024-12-31 or 2025-01-01, in one of two regions
TrendsDraws ==
    {DrawOf(d[1], 1000, "Global Corp", d[2], d[3], "Paid") :
        d \in {<<"APAC", 0, 50004>>, <<"APAC", 5, 69996>>, <<"EMEA", 36, 50004>>,
               <<"APAC", 351, 69996>>, <<"EMEA", 352, 50004>>}}

\* the period parameter: the three granularities and a malformed one
TrendsPeriods == {"monthly", "quarterly", "yearly", "weekly"}

InitTrends == InitAt({TrendsDay})
GenerateTrends == GenerateFrom(1, [1..NTrends -> TrendsDraws])
RequestTrends ==
    \E period \in TrendsPeriods, region \in {"", "APAC", "EMEA", "Americas"} :
        get_sales_trends(period, region)

NextTrends ==
    \/ StartOne
    \/ DeleteSales(1)
    \/ DeleteProfiles(1)
    \/ GenerateTrends
    \/ InsertSales(1)
    \/ Derive(1)
    \/ InsertProfiles(1)
    \/ RequestTrends

SpecTrends == InitTrends /\ [][NextTrends]_vars


\* YYYY: the year in four digits
YYYY(y) ==
    <<Digit(y \div 1000), Digit((y \div 100) % 10), Digit((y \div 10) % 10),
      Digit(y % 10)>>

\* the key the claim gives a date: YYYY-MM, YYYY-Q{ceil(month/3)} or YYYY
ClaimedKey(period, order_date) ==
    LET c == CivilFromDays(order_date) IN
    CASE period = "monthly" ->
            YYYY(c.year) \o <<45, Digit(c.month \div 10), Digit(c.month % 10)>>
      [] period = "quarterly" -> YYYY(c.year) \o <<45, 81, Digit((c.month + 2) \div 3)>>
      [] period = "yearly" -> YYYY(c.year)

\* the records of data the claim puts under key k
Members(data, period, k) ==
    SelectSeq(data, LAMBDA r : ClaimedKey(period, r.order_date) = k)

\* "2024-01"
Key2024_01 == <<50, 48, 50, 52, 45, 48, 49>>

\* C7: for each of the three granularities, every record read lies in exactly
\* one bucket of the result, the one of its key (YYYY-MM, YYYY-Q{ceil(month/3)},
\* YYYY); a bucket's revenue is the sum and its orders the count of its
\* records; the list is strictly ascending by key, which is the order of the
\* dates; no record gives the empty list; and the records of 2024-01-15 (50)
\* and 2024-01-20 (70) give, monthly, the one bucket 2024-01 of 120 and 2.
C7_TrendBuckets ==
    (trendsResp.served /\ trendsResp.period \in {"monthly", "quarterly", "yearly"}) =>
        LET data == trendsResp.sales_data
            res == trendsResp.result
            period == trendsResp.period
        IN  /\ data = <<>> => res = <<>>
            /\ \A i \in 1..Len(data) :
                  Cardinality({b \in 1..Len(res) :
                      res[b].period = ClaimedKey(period, data[i].order_date)}) = 1
            /\ \A b \in 1..Len(res) :
                  LET ms == Members(data, period, res[b].period) IN
                  /\ ms # <<>>
                  /\ res[b].orders = Len(ms)
                  /\ res[b].revenue = SumSeq([i \in 1..Len(ms) |-> ms[i].revenue])
            /\ \A b, c \in 1..Len(res) :
                  b < c =>
                     /\ StrLess(res[b].period, res[c].period)
                     /\ \A i, j \in 1..Len(data) :
                           ( /\ ClaimedKey(period, data[i].order_date) = res[b].period
                             /\ ClaimedKey(period, data[j].order_date) = res[c].period )
                           => data[i].order_date < data[j].order_date
            /\ ( /\ period = "monthly"
                 /\ [i \in 1..Len(data) |-> <<data[i].order_date, data[i].revenue>>]
                       = <<(<<19737, 5000>>), (<<19742, 7000>>)>> )
               => res = <<[period |-> Key2024_01, revenue |-> 12000, orders |-> 2]>>

\* a quarterly request has read three records, the latest first, and returned
\* three buckets
C7_Witness ==
    /\ trendsResp.served
    /\ trendsResp.period = "quarterly"
    /\ Len(trendsResp.sales_data) = 3
    /\ trendsResp.sales_data[1].order_date > trendsResp.sales_data[2].order_date
    /\ trendsResp.sales_data[2].order_date > trendsResp.sales_data[3].order_date
    /\ Len(trendsResp.result) = 3

\* a monthly request has read the records of 2024-01-15 and 2024-01-20
C7_ExampleReached ==
    /\ trendsResp.served
    /\ trendsResp.period = "monthly"
    /\ [i \in 1..Len(trendsResp.sales_data) |->
            <<trendsResp.sales_data[i].order_date, trendsResp.sales_data[i].revenue>>]
          = <<(<<19737, 5000>>), (<<19742, 7000>>)>>

-----------------------------------------------------------------------------
(* get_sales_forecast *)

\* timedelta(days=365): the lookback
LookbackDays == 365

\* db.sales_records.find({"order_date": {"$gte": start_date}})
FindSalesSince(start_date) ==
    SelectSeq(sales, LAMBDA r : r.order_date >= start_date)

\* the index of month key k in the dict m, 0 if it is no key
IndexOfMonth(m, k) ==
    IF \E i \in 1..Len(m) : m[i].month = k
    THEN CHOOSE i \in 1..Len(m) : m[i].month = k
    ELSE 0

\* lines 477-481: one record added to the dict monthly_data
AddToMonthly(m, k, revenue) ==
    LET i0 == IndexOfMonth(m, k)
        m1 == IF i0 = 0 THEN Append(m, [month |-> k, revenue |-> 0]) ELSE m
        i == IF i0 = 0 THEN Len(m1) ELSE i0
    IN  [m1 EXCEPT ![i].revenue = @ + revenue]

\* lines 471-481: the dict monthly_data, in insertion order
RECURSIVE BuildMonthly(_, _, _)
BuildMonthly(data, i, m) ==
    IF i > Len(data) THEN m
    ELSE BuildMonthly(data, i + 1,
                      AddToMonthly(m, strftime_Ym(data[i].order_date), data[i].revenue))

\* k put into the sorted list of keys l, behind the keys not above it
InsertKey(l, k) ==
    LET above == {i \in 1..Len(l) : StrLess(k, l[i])}
        at == IF above = {} THEN Len(l) + 1
              ELSE CHOOSE i \in above : \A j \in above : i <= j
    IN  SubSeq(l, 1, at - 1) \o <<k>> \o SubSeq(l, at, Len(l))

\* sorted(monthly_data.keys())
RECURSIVE SortedKeys(_)
SortedKeys(m) ==
    IF m = <<>> THEN <<>>
    ELSE InsertKey(SortedKeys(SubSeq(m, 1, Len(m) - 1)), m[Len(m)].month)

\* monthly_data[month]
MonthlyAt(m, k) == m[IndexOfMonth(m, k)].revenue

\* `if len(revenues) < 2`
TooFewMonths_Two(revenues) == Len(revenues) < 2

\* line 487: `if len(revenues) < 3`
TooFewMonths(revenues) == Len(revenues) < 3

\* np.polyfit(x, y, 1) for x = 0..n-1: the least-squares line, <<slope, intercept>>
polyfit(y) ==
    LET n == Len(y)
        sx == SumSeq([k \in 1..n |-> k - 1])
        sxx == SumSeq([k \in 1..n |-> (k - 1) * (k - 1)])
        sy == SumSeq(y)
        sxy == SumSeq([k \in 1..n |-> (k - 1) * y[k]])
        slope == Rat(n * sxy - sx * sy, n * sxx - sx * sx)
        intercept == RMul(RSub(RInt(sy), RMul(slope, RInt(sx))), Rat(1, n))
    IN  <<slope, intercept>>

\* trend_slope * (len(revenues) + i) + trend_intercept
forecasted_value_FromLen(trend_slope, trend_intercept, last_index, i) ==
    RAdd(RMul(trend_slope, RInt(last_index + 1 + i)), trend_intercept)

\* line 514: trend_slope * (last_index + i) + trend_intercept
forecasted_value(trend_slope, trend_intercept, last_index, i) ==
    RAdd(RMul(trend_slope, RInt(last_index + i)), trend_intercept)

\* round(v, 2) of an amount of v cents, in cents
RoundCents(v) == round(RMul(v, Rat(1, 100)), 100)

\* ActualPoints without the cut to the last 6 months
ActualPoints_All(sorted_months, revenues) ==
    [j \in 1..Len(sorted_months) |->
        [period |-> sorted_months[j],
         actual_revenue |-> <<revenues[j]>>,
         forecasted_revenue |-> <<>>,
         confidence_interval |-> <<>>]]

\* lines 503-508: the points of the last 6 months
ActualPoints(sorted_months, revenues) ==
    LET n == Len(sorted_months)
        first == IF n > 6 THEN n - 5 ELSE 1
    IN  [j \in 1..(n - first + 1) |->
            [period |-> sorted_months[first + j - 1],
             actual_revenue |-> <<revenues[first + j - 1]>>,
             forecasted_revenue |-> <<>>,
             confidence_interval |-> <<>>]]

\* lines 511-528: the forecast points, i = 1..months
ForecastPoints(current_date, months, trend_slope, trend_intercept, last_index) ==
    [i \in 1..months |->
        LET v == forecasted_value(trend_slope, trend_intercept, last_index, i) IN
        [period |-> strftime_Ym(current_date + 30 * i),
         actual_revenue |-> <<>>,
         forecasted_revenue |-> <<RoundCents(v)>>,
         confidence_interval |->
            <<[lower |-> RoundCents(RMul(v, Rat(8, 10))),
               upper |-> RoundCents(RMul(v, Rat(12, 10)))]>>]]

\* lines 467-530: the handler's locals and result on the records data. An
\* Optional field is <<>> for None and <<v>> for the value v.
sales_forecast(data, months, current_date) ==
    LET monthly_data == BuildMonthly(data, 1, <<>>)
        sorted_months == SortedKeys(monthly_data)
        revenues == [k \in 1..Len(sorted_months) |->
                        MonthlyAt(monthly_data, sorted_months[k])]
        coeffs == polyfit(revenues)
        base == [served |-> TRUE, months |-> months, current_date |-> current_date,
                 sales_data |-> data, revenues |-> <<>>, fitted |-> FALSE,
                 trend_slope |-> <<0, 1>>, trend_intercept |-> <<0, 1>>,
                 result |-> <<>>]
    IN  IF data = <<>> THEN base
        ELSE IF TooFewMonths(revenues) THEN [base EXCEPT !.revenues = revenues]
        ELSE [base EXCEPT
                !.revenues = revenues,
                !.fitted = TRUE,
                !.trend_slope = coeffs[1],
                !.trend_intercept = coeffs[2],
                !.result = ActualPoints(sorted_months, revenues)
                           \o ForecastPoints(current_date, months, coeffs[1],
                                             coeffs[2], Len(revenues) - 1)]

\* GET /api/forecast?months=..
get_sales_forecast(months) ==
    /\ forecastResp' = sales_forecast(FindSalesSince(now - LookbackDays), months, now)
    /\ UNCHANGED <<now, sales, profiles, spc, scall, srecs, scust, sscore, sdocs,
                   sovl, calls, lastDone, trendsResp, kpc, kloc, kpiResp, rpc, rloc,
                   regionalResp, cpc, cloc, countryResp, riskResp>>

-----------------------------------------------------------------------------
(* get_sales_forecast on the ledger of one synthesis call *)

\* range(5000) of the generation loop, scaled down, for the forecast claims
NForecast == 3

\* the draws of one iteration, made on 2026-01-14: an order of 2024-11-10
\* (before the lookback), 2025-01-14 (its first day), 2025-11-15, 2025-12-15 or
\* 2026-01-13, of 100.00, 200.00 or 300.00
ForecastDraws ==
    {DrawOf("APAC", 1000, "Global Corp", d[1], d[2], "Paid") :
        d \in {<<300, 100004>>, <<365, 199996>>, <<670, 100004>>, <<700, 199996>>,
               <<700, 100004>>, <<729, 300000>>}}

\* the months parameter
ForecastMonths == {-1, 0, 1, 3}

GenerateForecast == GenerateFrom(1, [1..NForecast -> ForecastDraws])
RequestForecast == \E months \in ForecastMonths : get_sales_forecast(months)

NextForecast ==
    \/ StartOne
    \/ DeleteSales(1)
    \/ DeleteProfiles(1)
    \/ GenerateForecast
    \/ InsertSales(1)
    \/ Derive(1)
    \/ InsertProfiles(1)
    \/ RequestForecast

SpecForecast == InitTrends /\ [][NextForecast]_vars


\* the month of a date, counted from year 0
MonthIndex(order_date) ==
    LET c == CivilFromDays(order_date) IN c.year * 12 + c.month - 1

\* the months in which the records data are dated
MonthsOf(data) == {MonthIndex(data[i].order_date) : i \in 1..Len(data)}

\* the k-th of them in the order of time, k = 0, 1, ...
KthMonth(data, k) ==
    CHOOSE m \in MonthsOf(data) : Cardinality({x \in MonthsOf(data) : x < m}) = k

\* the revenue of the records of data dated in month m
RevenueOfMonth(data, m) ==
    LET ms == SelectSeq(data, LAMBDA r : MonthIndex(r.order_date) = m)
    IN  SumSeq([i \in 1..Len(ms) |-> ms[i].revenue])

\* the bucket revenues of data, in the order of time
BucketRevenues(data) ==
    [k \in 1..Cardinality(MonthsOf(data)) |-> RevenueOfMonth(data, KthMonth(data, k - 1))]

\* the integer v is the rational q rounded to a nearest integer
Rounds(v, q) == 2 * Abs(v * q[2] - q[1]) <= q[2]

\* the line of slope s and intercept c is the least-squares line through the
\* points (k, y[k+1]): both normal equations hold
LeastSquares(s, c, y) ==
    LET n == Len(y)
        sx == SumSeq([k \in 1..n |-> k - 1])
        sxx == SumSeq([k \in 1..n |-> (k - 1) * (k - 1)])
        sy == SumSeq(y)
        sxy == SumSeq([k \in 1..n |-> (k - 1) * y[k]])
    IN  /\ REq(RAdd(RMul(s, RInt(sx)), RMul(c, RInt(n))), RInt(sy))
        /\ REq(RAdd(RMul(s, RInt(sxx)), RMul(c, RInt(sx))), RInt(sxy))

\* the records of the store dated within the 365-day lookback
LookbackRecords == SelectSeq(sales, LAMBDA r : now - r.order_date <= 365)

\* C5: a forecast request made while the records within the 365-day lookback
\* fall into fewer than 3 distinct months (none at all included) returns the
\* empty list, whatever its months parameter.
C5_FewBucketsEmpty ==
    [][ forecastResp' # forecastResp =>
           ( Cardinality(MonthsOf(LookbackRecords)) < 3 =>
                forecastResp'.served /\ forecastResp'.result = <<>> ) ]_vars

\* a request for 3 months on records of exactly two months has returned nothing
C5_Witness ==
    /\ forecastResp.served
    /\ forecastResp.months = 3
    /\ Cardinality(MonthsOf(forecastResp.sales_data)) = 2
    /\ forecastResp.result = <<>>

\* the forecast points of the last result
ForecastPart == SelectSeq(forecastResp.result, LAMBDA pt : pt.forecasted_revenue # <<>>)

\* C6: with n >= 3 monthly buckets the handler's slope and intercept are the
\* least-squares line through (k, revenue of the k-th bucket in the order of
\* time), k = 0..n-1; the i-th forecast point, i = 1..months, carries
\* slope * ((n-1) + i) + intercept and the interval of 0.8 and 1.2 times it,
\* each rounded to the cent; buckets of 100, 200, 300 give slope 100, intercept
\* 100, first forecast 400 and interval [320, 480].
C6_ForecastLine ==
    LET data == forecastResp.sales_data
        y == BucketRevenues(data)
        n == Len(y)
        s == forecastResp.trend_slope
        c == forecastResp.trend_intercept
        fp == ForecastPart
    IN  (forecastResp.served /\ n >= 3) =>
            /\ forecastResp.fitted
            /\ LeastSquares(s, c, y)
            /\ Len(fp) = Max(0, forecastResp.months)
            /\ \A i \in 1..Len(fp) :
                  LET f == RAdd(RMul(s, RInt((n - 1) + i)), c) IN
                  /\ Rounds(fp[i].forecasted_revenue[1], f)
                  /\ Rounds(fp[i].confidence_interval[1].lower, RMul(Rat(4, 5), f))
                  /\ Rounds(fp[i].confidence_interval[1].upper, RMul(Rat(6, 5), f))
            /\ y = <<10000, 20000, 30000>> =>
                  /\ s = <<10000, 1>>
                  /\ c = <<10000, 1>>
                  /\ \A i \in 1..Len(fp) :
                        i = 1 =>
                           /\ fp[i].forecasted_revenue = <<40000>>
                           /\ fp[i].confidence_interval
                                 = <<[lower |-> 32000, upper |-> 48000]>>

\* a request for 3 months on buckets of 100, 200 and 300 has been answered
C6_Witness ==
    /\ forecastResp.served
    /\ forecastResp.months = 3
    /\ forecastResp.revenues = <<10000, 20000, 30000>>
    /\ Len(forecastResp.result) = 6

\* a request has been answered with a forecast below zero
C6_NegativeReached ==
    /\ forecastResp.served
    /\ \E i \in 1..Len(forecastResp.result) :
          /\ forecastResp.result[i].forecasted_revenue # <<>>
          /\ forecastResp.result[i].forecasted_revenue[1] < 0

-----------------------------------------------------------------------------
(* get_kpis *)

\* sum(record["revenue"] for record in records), in cents
RevenueOf(records) == SumSeq([i \in 1..Len(records) |-> records[i].revenue])

\* revenue_growth without the factor 100
revenue_growth_NoPercent(current_revenue, previous_revenue) ==
    IF previous_revenue > 0
    THEN Rat(current_revenue - previous_revenue, previous_revenue)
    ELSE RInt(0)

\* line 311: the growth in percent, 0 when there is no previous revenue
revenue_growth(current_revenue, previous_revenue) ==
    IF previous_revenue > 0
    THEN RMul(Rat(current_revenue - previous_revenue, previous_revenue), RInt(100))
    ELSE RInt(0)

\* line 314: current_revenue / total_orders if total_orders > 0 else 0, in cents
kpi_avg_deal_size(current_revenue, total_orders) ==
    IF total_orders > 0 THEN Rat(current_revenue, total_orders) ELSE RInt(0)

\* the index of region r in the dict d, 0 if it is no key
IndexOfRegion(d, r) ==
    IF \E i \in 1..Len(d) : d[i].region = r
    THEN CHOOSE i \in 1..Len(d) : d[i].region = r
    ELSE 0

\* lines 324-329: the dict region_revenue, in insertion order
RECURSIVE BuildRegionRevenue(_, _, _)
BuildRegionRevenue(records, i, d) ==
    IF i > Len(records) THEN d
    ELSE LET k0 == IndexOfRegion(d, records[i].region)
             d1 == IF k0 = 0 THEN Append(d, [region |-> records[i].region, revenue |-> 0])
                   ELSE d
             k == IF k0 = 0 THEN Len(d1) ELSE k0
         IN  BuildRegionRevenue(records, i + 1,
                                [d1 EXCEPT ![k].revenue = @ + records[i].revenue])

\* x put into the list l, sorted by revenue descending, ahead of the entries
\* not above it: the order an ascending sort read backwards gives
InsertByRevenueDesc_TiesFirst(l, x) ==
    LET notAbove == {i \in 1..Len(l) : l[i].revenue <= x.revenue}
        at == IF notAbove = {} THEN Len(l) + 1
              ELSE CHOOSE i \in notAbove : \A j \in notAbove : i <= j
    IN  SubSeq(l, 1, at - 1) \o <<x>> \o SubSeq(l, at, Len(l))

\* x put into the list l, sorted by revenue descending, behind the entries
\* not below it
InsertByRevenueDesc(l, x) ==
    LET below == {i \in 1..Len(l) : l[i].revenue < x.revenue}
        at == IF below = {} THEN Len(l) + 1
              ELSE CHOOSE i \in below : \A j \in below : i <= j
    IN  SubSeq(l, 1, at - 1) \o <<x>> \o SubSeq(l, at, Len(l))

\* sorted(.., key=revenue, reverse=True): stable, equal revenues keep their order
RECURSIVE SortByRevenueDesc(_)
SortByRevenueDesc(l) ==
    IF l = <<>> THEN <<>>
    ELSE InsertByRevenueDesc(SortByRevenueDesc(SubSeq(l, 1, Len(l) - 1)), l[Len(l)])

\* lines 292-300: the request arrives, reads the clock, and its first find runs
KpisReadCurrent ==
    /\ kpc = "idle"
    /\ kloc' = [NoKpiLocals EXCEPT
                  !.current_date = now,
                  !.current_sales = SelectSeq(sales, LAMBDA r : r.order_date >= now - 30)]
    /\ kpc' = "previous"
    /\ UNCHANGED <<now, sales, profiles, spc, scall, srecs, scust, sscore, sdocs,
                   sovl, calls, lastDone, trendsResp, forecastResp, kpiResp, rpc, rloc,
                   regionalResp, cpc, cloc, countryResp, riskResp>>

\* lines 303-305: the find of the previous period
KpisReadPrevious ==
    /\ kpc = "previous"
    /\ kloc' = [kloc EXCEPT !.previous_sales =
                  SelectSeq(sales, LAMBDA r : /\ r.order_date >= kloc.current_date - 60
                                              /\ r.order_date < kloc.current_date - 30)]
    /\ kpc' = "high_risk"
    /\ UNCHANGED <<now, sales, profiles, spc, scall, srecs, scust, sscore, sdocs,
                   sovl, calls, lastDone, trendsResp, forecastResp, kpiResp, rpc, rloc,
                   regionalResp, cpc, cloc, countryResp, riskResp>>

\* line 317: count_documents({"risk_category": "High"})
KpisCountHighRisk ==
    /\ kpc = "high_risk"
    /\ kloc' = [kloc EXCEPT !.high_risk_customers =
                  Len(SelectSeq(profiles, LAMBDA c : c.risk_category = "High"))]
    /\ kpc' = "overdue"
    /\ UNCHANGED <<now, sales, profiles, spc, scall, srecs, scust, sscore, sdocs,
                   sovl, calls, lastDone, trendsResp, forecastResp, kpiResp, rpc, rloc,
                   regionalResp, cpc, cloc, countryResp, riskResp>>

\* lines 308-342 on the locals l and the overdue records read last
KPIMetrics(l, overdue_records) ==
    LET current_revenue == RevenueOf(l.current_sales)
        previous_revenue == RevenueOf(l.previous_sales)
        total_orders == Len(l.current_sales)
    IN  [served |-> TRUE,
         current_sales |-> l.current_sales,
         previous_sales |-> l.previous_sales,
         total_revenue |-> RoundCents(RInt(current_revenue)),
         total_orders |-> total_orders,
         avg_deal_size |-> RoundCents(kpi_avg_deal_size(current_revenue, total_orders)),
         revenue_growth |-> round(revenue_growth(current_revenue, previous_revenue), 10),
         high_risk_customers |-> l.high_risk_customers,
         overdue_payments |-> RoundCents(RInt(RevenueOf(overdue_records))),
         top_regions |-> SortByRevenueDesc(BuildRegionRevenue(l.current_sales, 1, <<>>))]

\* line 320: the find of the overdue records; lines 308-342: the response
KpisReadOverdue ==
    /\ kpc = "overdue"
    /\ kpiResp' = KPIMetrics(kloc,
                     SelectSeq(sales, LAMBDA r : r.payment_status = "Overdue"))
    /\ kloc' = NoKpiLocals
    /\ kpc' = "idle"
    /\ UNCHANGED <<now, sales, profiles, spc, scall, srecs, scust, sscore, sdocs,
                   sovl, calls, lastDone, trendsResp, forecastResp, rpc, rloc,
                   regionalResp, cpc, cloc, countryResp, riskResp>>

-----------------------------------------------------------------------------
(* get_kpis on the ledger of one synthesis call *)

\* range(5000) of the generation loop, scaled down, for the KPI claims
NKpis == 3

\* the draws of one iteration: an order 1, 30, 31, 60 or 61 days old, of
\* 100.00 or 250.00
KpiDraws ==
    {DrawOf(d[1], 1000, "Global Corp", d[2], d[3], d[4]) :
        d \in {<<"APAC", 729, 100004, "Paid">>, <<"EMEA", 729, 250000, "Overdue">>,
               <<"APAC", 700, 100004, "Paid">>, <<"EMEA", 699, 250000, "Paid">>,
               <<"APAC", 699, 100004, "Overdue">>, <<"APAC", 670, 100004, "Paid">>,
               <<"EMEA", 669, 250000, "Paid">>}}

\* the volatility draws random.uniform(0, 30), in hundredths
KpiVols == {500, 2500}

GenerateKpis == GenerateFrom(1, [1..NKpis -> KpiDraws])
DeriveKpis == DeriveFrom(1, KpiVols)

NextKpis ==
    \/ StartOne
    \/ DeleteSales(1)
    \/ DeleteProfiles(1)
    \/ GenerateKpis
    \/ InsertSales(1)
    \/ DeriveKpis
    \/ InsertProfiles(1)
    \/ KpisReadCurrent
    \/ KpisReadPrevious
    \/ KpisCountHighRisk
    \/ KpisReadOverdue

SpecKpis == Init /\ [][NextKpis]_vars


\* the revenue, in cents, of the records read for a window
RECURSIVE RevenueUpTo(_, _)
RevenueUpTo(records, k) ==
    IF k = 0 THEN 0 ELSE RevenueUpTo(records, k - 1) + records[k].revenue

WindowRevenue(records) == RevenueUpTo(records, Len(records))

\* C4: in the answer of get_kpis, when the revenue of the prior
\* 30-day window is 0 the returned revenue_growth is 0, otherwise it is
\* (current - previous) / previous * 100 (to a tenth); when the trailing window
\* holds no orders the returned avg_deal_size is 0, otherwise it is
\* current_revenue / total_orders (to the cent).
C4_KpiGuards ==
    kpiResp.served =>
          LET current == WindowRevenue(kpiResp.current_sales)
              previous == WindowRevenue(kpiResp.previous_sales)
              orders == Len(kpiResp.current_sales)
          IN  /\ previous = 0 => kpiResp.revenue_growth = 0
              /\ previous # 0 =>
                    2 * Abs(kpiResp.revenue_growth * previous
                            - (current - previous) * 1000) <= previous
              /\ orders = 0 => kpiResp.avg_deal_size = 0
              /\ orders # 0 =>
                    2 * Abs(kpiResp.avg_deal_size * orders - current) <= orders

\* a request has been answered on a trailing window with revenue and a prior
\* window with none
C4_Witness ==
    /\ kpiResp.served
    /\ kpiResp.previous_sales = <<>>
    /\ Len(kpiResp.current_sales) >= 2
    /\ kpiResp.revenue_growth = 0
    /\ kpiResp.avg_deal_size > 0

\* a request has been answered on no orders in the trailing window and some in
\* the prior one
C4_NoOrdersReached ==
    /\ kpiResp.served
    /\ kpiResp.current_sales = <<>>
    /\ kpiResp.previous_sales # <<>>
    /\ kpiResp.revenue_growth = -1000

-----------------------------------------------------------------------------
(* get_regional_summary *)

\* the list of line 348 without its last region
regions_TwoOnly == <<"APAC", "EMEA">>

\* line 348: regions = ["APAC", "EMEA", "Americas"]
regions == <<"APAC", "EMEA", "Americas">>

\* the index of customer_id cid in the dict d, 0 if it is no key
IndexOfRevenue(d, cid) ==
    IF \E i \in 1..Len(d) : d[i].customer_id = cid
    THEN CHOOSE i \in 1..Len(d) : d[i].customer_id = cid
    ELSE 0

\* lines 369-374: the dict customer_revenue, in insertion order
RECURSIVE BuildCustomerRevenue(_, _, _)
BuildCustomerRevenue(records, i, d) ==
    IF i > Len(records) THEN d
    ELSE LET k0 == IndexOfRevenue(d, records[i].customer_id)
             d1 == IF k0 = 0
                   THEN Append(d, [customer_id |-> records[i].customer_id,
                                   name |-> records[i].customer_name,
                                   revenue |-> 0])
                   ELSE d
             k == IF k0 = 0 THEN Len(d1) ELSE k0
         IN  BuildCustomerRevenue(records, i + 1,
                                  [d1 EXCEPT ![k].revenue = @ + records[i].revenue])

\* [:5]
FirstFive(l) == SubSeq(l, 1, Min(5, Len(l)))

\* lines 368-377: top_customers of the records sales_data
top_customers(sales_data) ==
    LET ranked == FirstFive(SortByRevenueDesc(BuildCustomerRevenue(sales_data, 1, <<>>)))
    IN  [k \in 1..Len(ranked) |-> [name |-> ranked[k].name, revenue |-> ranked[k].revenue]]

\* lines 363-366: the revenue of the records of high-risk customers
risk_exposure(sales_data, customer_data) ==
    LET high == {customer_data[k].customer_id :
                    k \in {j \in 1..Len(customer_data) :
                              customer_data[j].risk_category = "High"}}
    IN  RevenueOf(SelectSeq(sales_data, LAMBDA r : r.customer_id \in high))

\* lines 359-390: the RegionalSummary of one region (without countries: the
\* records of the model carry no country)
RegionalSummary(region, sales_data, customer_data) ==
    LET total_revenue == RevenueOf(sales_data)
        total_orders == Len(sales_data)
    IN  [region |-> region,
         total_revenue |-> RoundCents(RInt(total_revenue)),
         total_orders |-> total_orders,
         avg_deal_size |-> RoundCents(kpi_avg_deal_size(total_revenue, total_orders)),
         risk_exposure |-> RoundCents(RInt(risk_exposure(sales_data, customer_data))),
         top_customers |-> top_customers(sales_data)]

\* line 353: the find of the sales of region number k
RegionalRead(k, l) ==
    /\ rloc' = [l EXCEPT
                  !.region = k,
                  !.sales_data = SelectSeq(sales, LAMBDA r : r.region = regions[k])]
    /\ rpc' = "customers"
    /\ UNCHANGED <<now, sales, profiles, spc, scall, srecs, scust, sscore, sdocs,
                   sovl, calls, lastDone, trendsResp, forecastResp, kpc, kloc,
                   kpiResp, regionalResp, cpc, cloc, countryResp, riskResp>>

\* the request arrives and the find of the first region's sales runs
RegionalStart ==
    /\ rpc = "idle"
    /\ Len(regions) >= 1
    /\ RegionalRead(1, [NoRegionalLocals EXCEPT
                           !.quiet = \A p \in Synths : ~InProgress(p),
                           !.calls0 = calls])

\* the find of the next region's sales
RegionalReadSales ==
    /\ rpc = "sales"
    /\ RegionalRead(rloc.region + 1, rloc)

\* line 354: the find of the region's profiles; lines 356-392: its summary,
\* and the response after the last region
RegionalReadCustomers ==
    /\ rpc = "customers"
    /\ LET region == regions[rloc.region]
           customer_data == SelectSeq(profiles, LAMBDA c : c.region = region)
           summaries ==
               IF rloc.sales_data = <<>> THEN rloc.regional_summaries
               ELSE Append(rloc.regional_summaries,
                           RegionalSummary(region, rloc.sales_data, customer_data))
           read == Append(rloc.sales_read, rloc.sales_data)
       IN  IF rloc.region < Len(regions)
           THEN /\ rloc' = [rloc EXCEPT !.regional_summaries = summaries,
                                        !.sales_read = read,
                                        !.sales_data = <<>>]
                /\ rpc' = "sales"
                /\ UNCHANGED regionalResp
           ELSE /\ regionalResp' = [served |-> TRUE, result |-> summaries,
                                    sales_read |-> read,
                                    undisturbed |-> rloc.quiet /\ rloc.calls0 = calls]
                /\ rloc' = NoRegionalLocals
                /\ rpc' = "idle"
    /\ UNCHANGED <<now, sales, profiles, spc, scall, srecs, scust, sscore, sdocs,
                   sovl, calls, lastDone, trendsResp, forecastResp, kpc, kloc,
                   kpiResp, cpc, cloc, countryResp, riskResp>>

-----------------------------------------------------------------------------
(* get_regional_summary on the ledger of one synthesis call *)

\* range(5000) of the generation loop, scaled down, for the regional totals
NRegional == 3

\* the draws of one iteration: one customer per region, 100.00 or 250.00, the
\* orders of EMEA overdue
RegionalDraws ==
    {DrawOf(d[1], 1000, "Global Corp", 700, rv, d[2]) :
        d \in {<<"APAC", "Paid">>, <<"EMEA", "Overdue">>, <<"Americas", "Paid">>},
        rv \in {100004, 250000}}

\* the volatility draws random.uniform(0, 30), in hundredths
RegionalVols == {2500}

GenerateRegional == GenerateFrom(1, [1..NRegional -> RegionalDraws])
DeriveRegional == DeriveFrom(1, RegionalVols)

NextRegional ==
    \/ StartOne
    \/ DeleteSales(1)
    \/ DeleteProfiles(1)
    \/ GenerateRegional
    \/ InsertSales(1)
    \/ DeriveRegional
    \/ InsertProfiles(1)
    \/ RegionalStart
    \/ RegionalReadSales
    \/ RegionalReadCustomers

SpecRegional == Init /\ [][NextRegional]_vars

-----------------------------------------------------------------------------
(* The regional totals against the ledger *)

\* the total_revenue entries of a list of summaries, in cents
RegionalTotals(result) == SumSeq([k \in 1..Len(result) |-> result[k].total_revenue])

\* the revenue of the whole ledger, in cents
LedgerRevenue == SumSeq([k \in 1..Len(sales) |-> sales[k].revenue])

\* C3: when no synthesis call is in progress during a regional-summary
\* request, the total_revenue entries of the returned summaries add up to the
\* revenue of all the records of the ledger, and a region without records has
\* no summary and so contributes nothing
C3_RegionalTotalsAddUp ==
    [][(regionalResp' # regionalResp /\ regionalResp'.undisturbed) =>
          /\ RegionalTotals(regionalResp'.result) = LedgerRevenue
          /\ \A k \in 1..Len(regions) :
                (\A i \in 1..Len(sales) : sales[i].region # regions[k]) =>
                   \A j \in 1..Len(regionalResp'.result) :
                      regionalResp'.result[j].region # regions[k]]_vars

\* an undisturbed request answered over a full ledger that has records in
\* Americas and in one more region, and none in the third
C3_Witness ==
    /\ regionalResp.served
    /\ regionalResp.undisturbed
    /\ Len(sales) = NRegional
    /\ Len(regionalResp.result) = 2
    /\ \E k \in 1..2 : regionalResp.result[k].region = "Americas"
    /\ RegionalTotals(regionalResp.result) = LedgerRevenue

\* a request that overlapped a synthesis call and whose totals miss the ledger
C3_DisturbedReached ==
    /\ regionalResp.served
    /\ ~regionalResp.undisturbed
    /\ \A p \in Synths : ~InProgress(p)
    /\ RegionalTotals(regionalResp.result) # LedgerRevenue

-----------------------------------------------------------------------------
(* get_regional_summary on a ledger with many customers in one region *)

\* range(5000) of the generation loop, scaled down, for the customer ranking
NTop == 6

\* line 138: customer names, one for each iteration
TopNames == <<"Global Corp", "Digital Corp", "Smart Corp", "Tech Corp",
              "Future Corp", "Prime Corp", "Global Group", "Digital Group">>

\* the customer numbers drawn over the iterations, up to renaming: iteration i
\* draws a number drawn before or the least number not drawn yet
TopNumberings ==
    {f \in [1..NTop -> 1..NTop] :
        \A i \in 1..NTop :
           \/ f[i] = 1
           \/ \E j \in 1..(i - 1) : f[j] = f[i] - 1}

\* the draws of a call: all in APAC, 100.00 an order, the last one 100.00 or
\* 200.00
TopDrawSeqs ==
    {[i \in 1..NTop |->
         DrawOf("APAC", 999 + f[i], TopNames[i], 700,
                IF i = NTop /\ big THEN 200000 ELSE 100004, "Paid")] :
        f \in TopNumberings, big \in BOOLEAN}

GenerateTop == GenerateFrom(1, TopDrawSeqs)

NextTop ==
    \/ StartOne
    \/ DeleteSales(1)
    \/ DeleteProfiles(1)
    \/ GenerateTop
    \/ InsertSales(1)
    \/ DeriveRegional
    \/ InsertProfiles(1)
    \/ RegionalStart
    \/ RegionalReadSales
    \/ RegionalReadCustomers

SpecTop == Init /\ [][NextTop]_vars

-----------------------------------------------------------------------------
(* The customer ranking against the record set it was computed from *)

\* the records the request read for a region
RecordSetOf(resp, region) ==
    resp.sales_read[CHOOSE k \in 1..Len(regions) : regions[k] = region]

CustomersOf(records) == {records[i].customer_id : i \in 1..Len(records)}

FirstAppearance(records, c) ==
    CHOOSE i \in 1..Len(records) :
        /\ records[i].customer_id = c
        /\ \A j \in 1..(i - 1) : records[j].customer_id # c

SummedRevenue(records, c) ==
    WindowRevenue(SelectSeq(records, LAMBDA r : r.customer_id = c))

\* customer a comes before customer b: a higher summed revenue, or the same
\* and an earlier first appearance
Before(records, a, b) ==
    \/ SummedRevenue(records, a) > SummedRevenue(records, b)
    \/ /\ SummedRevenue(records, a) = SummedRevenue(records, b)
       /\ FirstAppearance(records, a) < FirstAppearance(records, b)

PlaceOf(records, c) ==
    1 + Cardinality({a \in CustomersOf(records) : Before(records, a, c)})

\* C8: for the record set of every region of an answer of
\* get_regional_summary, top_customers has min(5, number of distinct
\* customer_ids) entries, is in descending order of summed revenue, and its
\* j-th entry is the customer with exactly j - 1 customers before it, where a
\* customer comes before another when its summed revenue is higher, or equal
\* with an earlier first appearance in the record set; so no customer left
\* out has a higher summed revenue than one kept
C8_TopCustomers ==
    regionalResp.served =>
       \A k \in 1..Len(regionalResp.result) :
          LET records == RecordSetOf(regionalResp, regionalResp.result[k].region)
              top == regionalResp.result[k].top_customers
              kept == {c \in CustomersOf(records) : PlaceOf(records, c) <= Len(top)}
          IN  /\ Len(top) = Min(5, Cardinality(CustomersOf(records)))
              /\ \A j \in 1..(Len(top) - 1) : top[j].revenue >= top[j + 1].revenue
              /\ \A j \in 1..Len(top) :
                    \E c \in CustomersOf(records) :
                       /\ PlaceOf(records, c) = j
                       /\ top[j].revenue = SummedRevenue(records, c)
                       /\ top[j].name =
                             records[FirstAppearance(records, c)].customer_name
              /\ \A c \in CustomersOf(records) \ kept :
                    \A a \in kept :
                       SummedRevenue(records, c) <= SummedRevenue(records, a)

\* an answer over six customers of one region: the customer that appeared
\* last has the highest summed revenue and comes first, the other five tie,
\* and the one of them that appeared last is left out
C8_Witness ==
    /\ regionalResp.served
    /\ Len(regionalResp.result) = 1
    /\ LET records == RecordSetOf(regionalResp, "APAC")
           top == regionalResp.result[1].top_customers
       IN  /\ Cardinality(CustomersOf(records)) = 6
           /\ Len(top) = 5
           /\ top[1].revenue > top[2].revenue
           /\ top[2].revenue = top[5].revenue
           /\ top[1].name = records[Len(records)].customer_name
           /\ top[2].name = records[1].customer_name

\* an answer where two customers tie ahead of a third and all three are kept
C8_TieKeptReached ==
    /\ regionalResp.served
    /\ Len(regionalResp.result) = 1
    /\ LET top == regionalResp.result[1].top_customers
       IN  /\ Len(top) = 3
           /\ top[1].revenue = top[2].revenue
           /\ top[2].revenue > top[3].revenue

-----------------------------------------------------------------------------
(* get_country_performance *)

\* lines 536-538: the query, region "" standing for no region given
MatchesRegion(doc, region) == region = "" \/ doc.region = region

\* the index of country c in the dict m, 0 if it is no key
IndexOfCountry(m, c) ==
    IF \E k \in 1..Len(m) : m[k].country = c
    THEN CHOOSE k \in 1..Len(m) : m[k].country = c
    ELSE 0

\* lines 544-558: the dict country_metrics, in insertion order
RECURSIVE BuildCountryMetrics(_, _, _)
BuildCountryMetrics(sales_data, i, m) ==
    IF i > Len(sales_data) THEN m
    ELSE LET record == sales_data[i]
             k0 == IndexOfCountry(m, record.country)
             m1 == IF k0 = 0
                   THEN Append(m, [country |-> record.country,
                                   region |-> record.region,
                                   revenue |-> 0, orders |-> 0, customers |-> {},
                                   has_high_risk |-> FALSE,
                                   high_risk_customers |-> 0])
                   ELSE m
             k == IF k0 = 0 THEN Len(m1) ELSE k0
         IN  BuildCountryMetrics(sales_data, i + 1,
                [m1 EXCEPT ![k].revenue = @ + record.revenue,
                           ![k].orders = @ + 1,
                           ![k].customers = @ \cup {record.customer_id}])

\* lines 561-567: the risk metrics of the profiles customer_data
RECURSIVE AddRiskMetrics(_, _, _)
AddRiskMetrics(customer_data, i, m) ==
    IF i > Len(customer_data) THEN m
    ELSE LET customer == customer_data[i]
             k == IndexOfCountry(m, customer.country)
         IN  AddRiskMetrics(customer_data, i + 1,
                IF k = 0 THEN m
                ELSE [m EXCEPT ![k].has_high_risk = TRUE,
                               ![k].high_risk_customers =
                                  IF customer.risk_category = "High"
                                  THEN @ + 1 ELSE @])

\* lines 570-581: one entry of the result
CountryEntry(country_data) ==
    [country |-> country_data.country,
     region |-> country_data.region,
     revenue |-> RoundCents(RInt(country_data.revenue)),
     orders |-> country_data.orders,
     customers |-> Cardinality(country_data.customers),
     avg_deal_size |->
        IF country_data.orders > 0
        THEN RoundCents(Rat(country_data.revenue, country_data.orders))
        ELSE 0,
     high_risk_customers |->
        IF country_data.has_high_risk THEN country_data.high_risk_customers ELSE 0]

\* lines 543-586: the result computed from the two lists read
country_performance(sales_data, customer_data) ==
    LET country_metrics ==
            AddRiskMetrics(customer_data, 1, BuildCountryMetrics(sales_data, 1, <<>>))
    IN  SortByRevenueDesc([k \in 1..Len(country_metrics) |->
                              CountryEntry(country_metrics[k])])

\* lines 533-540: the request arrives and the find of the sales runs
CountryReadSales(region) ==
    /\ cpc = "idle"
    /\ cloc' = [region |-> region,
                sales_data |-> SelectSeq(sales, LAMBDA r : MatchesRegion(r, region)),
                snapshot_customers |->
                    SelectSeq(profiles, LAMBDA c : MatchesRegion(c, region))]
    /\ cpc' = "customers"
    /\ UNCHANGED <<now, sales, profiles, spc, scall, srecs, scust, sscore, sdocs,
                   sovl, calls, lastDone, trendsResp, forecastResp, kpc, kloc,
                   kpiResp, rpc, rloc, regionalResp, countryResp, riskResp>>

\* lines 541-586: the find of the profiles runs and the response is computed
CountryReadCustomers ==
    /\ cpc = "customers"
    /\ LET customer_data ==
               SelectSeq(profiles, LAMBDA c : MatchesRegion(c, cloc.region))
       IN  countryResp' = [served |-> TRUE,
                           region |-> cloc.region,
                           sales_data |-> cloc.sales_data,
                           customer_data |-> customer_data,
                           snapshot_customers |-> cloc.snapshot_customers,
                           result |-> country_performance(cloc.sales_data,
                                                          customer_data)]
    /\ cloc' = NoCountryLocals
    /\ cpc' = "idle"
    /\ UNCHANGED <<now, sales, profiles, spc, scall, srecs, scust, sscore, sdocs,
                   sovl, calls, lastDone, trendsResp, forecastResp, kpc, kloc,
                   kpiResp, rpc, rloc, regionalResp, riskResp>>

-----------------------------------------------------------------------------
(* get_customer_risk_analysis *)

\* x put into the list l, sorted by risk_score descending, behind the entries
\* not below it
InsertByRiskDesc(l, x) ==
    LET below == {i \in 1..Len(l) : l[i].risk_score < x.risk_score}
        at == IF below = {} THEN Len(l) + 1
              ELSE CHOOSE i \in below : \A j \in below : i <= j
    IN  SubSeq(l, 1, at - 1) \o <<x>> \o SubSeq(l, at, Len(l))

\* line 451: customers.sort(key=risk_score, reverse=True), a stable sort
RECURSIVE SortByRiskDesc(_)
SortByRiskDesc(l) ==
    IF l = <<>> THEN <<>>
    ELSE InsertByRiskDesc(SortByRiskDesc(SubSeq(l, 1, Len(l) - 1)), l[Len(l)])

\* get_customer_risk_analysis sorting the collection itself instead of the
\* list it fetched
get_customer_risk_analysis_SortsStore(category, region) ==
    /\ profiles' = SortByRiskDesc(profiles)
    /\ riskResp' = [served |-> TRUE, risk_category |-> category, region |-> region,
                    customers |->
                       SelectSeq(profiles',
                                 LAMBDA c : /\ category = "" \/ c.risk_category = category
                                            /\ MatchesRegion(c, region))]
    /\ UNCHANGED <<now, sales, spc, scall, srecs, scust, sscore, sdocs,
                   sovl, calls, lastDone, trendsResp, forecastResp, kpc, kloc,
                   kpiResp, rpc, rloc, regionalResp, cpc, cloc, countryResp>>

\* lines 439-453: the handler, "" standing for a parameter not given
get_customer_risk_analysis(category, region) ==
    /\ LET customers ==
               SelectSeq(profiles,
                         LAMBDA c : /\ category = "" \/ c.risk_category = category
                                    /\ MatchesRegion(c, region))
       IN  riskResp' = [served |-> TRUE, risk_category |-> category,
                        region |-> region, customers |-> SortByRiskDesc(customers)]
    /\ UNCHANGED <<now, sales, profiles, spc, scall, srecs, scust, sscore, sdocs,
                   sovl, calls, lastDone, trendsResp, forecastResp, kpc, kloc,
                   kpiResp, rpc, rloc, regionalResp, cpc, cloc, countryResp>>

-----------------------------------------------------------------------------
(* get_country_performance beside successive synthesis calls *)

\* range(5000) of the generation loop, scaled down, for the country metrics
NCountry == 2

\* the draws of the iterations of a call: these three in turn, from any of
\* them on
CountryDraws ==
    <<DrawOf("APAC", 1000, "Global Corp", 700, 100004, "Paid"),
      DrawOf("APAC", 1001, "Tech Group", 700, 250000, "Overdue"),
      DrawOf("EMEA", 1000, "Prime Corp", 700, 100004, "Overdue")>>

CountryDrawSeqs ==
    {[i \in 1..NCountry |-> CountryDraws[((first + i) % 3) + 1]] : first \in 0..2}

\* the volatility draws random.uniform(0, 30), in hundredths
CountryVols == {2500}

\* the region parameter of the requests
CountryRegions == {"", "EMEA"}

GenerateCountry == GenerateFrom(1, CountryDrawSeqs)
DeriveCountry == DeriveFrom(1, CountryVols)
RequestCountry == \E region \in CountryRegions : CountryReadSales(region)

NextCountry ==
    \/ StartSynthesis(1)
    \/ DeleteSales(1)
    \/ DeleteProfiles(1)
    \/ GenerateCountry
    \/ InsertSales(1)
    \/ DeriveCountry
    \/ InsertProfiles(1)
    \/ RequestCountry
    \/ CountryReadCustomers

SpecCountry == Init /\ [][NextCountry]_vars

-----------------------------------------------------------------------------
(* What a request reads beside a synthesis call *)

\* C11: the reads of one request observe one state of the store; stated for
\* get_country_performance: the profiles its second find returned are the
\* profiles the store held when its first find returned the sales
C11_OneSnapshot ==
    countryResp.served => countryResp.customer_data = countryResp.snapshot_customers

\* C13: a synthesis call, which takes no lock, takes the store through an empty sales collection (after its first delete
\* and until its insert of the sales) and through sales records beside an
\* empty profile collection (after that insert and until its insert of the
\* profiles)
C13_TransientLedger ==
    /\ spc[1] \in {"delete_profiles", "generate", "insert_sales"} => sales = <<>>
    /\ spc[1] \in {"generate", "insert_sales", "derive", "insert_profiles"} =>
          profiles = <<>>
    /\ spc[1] \in {"derive", "insert_profiles"} => Len(sales) = NCountry

\* the second call runs on a populated ledger; a request answered during it
\* read no sales while the old profiles were still there, and the request
\* now in flight read the new sales while there was no profile
C13_Witness ==
    /\ calls = 2
    /\ spc[1] \in {"derive", "insert_profiles"}
    /\ countryResp.served
    /\ countryResp.region = ""
    /\ countryResp.sales_data = <<>>
    /\ countryResp.snapshot_customers # <<>>
    /\ cpc = "customers"
    /\ cloc.region = ""
    /\ Len(cloc.sales_data) = NCountry
    /\ cloc.snapshot_customers = <<>>

-----------------------------------------------------------------------------
(* All analytics requests beside synthesis calls *)

\* range(5000) of the generation loop, scaled down, for the requests together
NAll == 2

\* at most this many of the six analytics operations are requested in one
\* behaviour, each any number of times
MaxOperations == 2

\* the draws of the iterations of a call: a customer that pays and one that
\* does not in turn, from either on
AllDraws ==
    <<DrawOf("APAC", 1000, "Global Corp", 700, 100004, "Paid"),
      DrawOf("APAC", 1001, "Tech Group", 729, 250000, "Overdue")>>

AllDrawSeqs ==
    {[i \in 1..NAll |-> AllDraws[((first + i) % 2) + 1]] : first \in 0..1}

\* the volatility draws random.uniform(0, 30), in hundredths
AllVols == {2500}

GenerateAll == GenerateFrom(1, AllDrawSeqs)
DeriveAll == DeriveFrom(1, AllVols)

\* the analytics operations requested so far
Requested ==
    {o \in {"trends", "forecast", "kpis", "regional", "country", "risk"} :
        \/ o = "trends" /\ trendsResp.served
        \/ o = "forecast" /\ forecastResp.served
        \/ o = "kpis" /\ (kpiResp.served \/ kpc # "idle")
        \/ o = "regional" /\ (regionalResp.served \/ rpc # "idle")
        \/ o = "country" /\ (countryResp.served \/ cpc # "idle")
        \/ o = "risk" /\ riskResp.served}

MayRequest(o) == o \in Requested \/ Cardinality(Requested) < MaxOperations

RequestTrendsAll ==
    /\ MayRequest("trends")
    /\ \E period \in {"monthly"}, region \in {"APAC"} :
          get_sales_trends(period, region)

RequestForecastAll ==
    /\ MayRequest("forecast")
    /\ \E months \in {1} : get_sales_forecast(months)

RequestKpisAll == MayRequest("kpis") /\ KpisReadCurrent
RequestRegionalAll == MayRequest("regional") /\ RegionalStart
RequestCountryAll == MayRequest("country") /\ \E region \in {""} : CountryReadSales(region)

RequestRisk ==
    /\ MayRequest("risk")
    /\ \E category \in {"", "High"}, region \in {""} :
          get_customer_risk_analysis(category, region)

NextAll ==
    \/ StartOne
    \/ DeleteSales(1)
    \/ DeleteProfiles(1)
    \/ GenerateAll
    \/ InsertSales(1)
    \/ DeriveAll
    \/ InsertProfiles(1)
    \/ RequestTrendsAll
    \/ RequestForecastAll
    \/ RequestKpisAll
    \/ KpisReadPrevious
    \/ KpisCountHighRisk
    \/ KpisReadOverdue
    \/ RequestRegionalAll
    \/ RegionalReadSales
    \/ RegionalReadCustomers
    \/ RequestCountryAll
    \/ CountryReadCustomers
    \/ RequestRisk

SpecAll == Init /\ [][NextAll]_vars

\* C12: only a step of a synthesis call changes the sales collection or the
\* profile collection; every step of an analytics request leaves both as they
\* are, and a request that has answered leaves no locals behind
C12_SoleWriter ==
    [][/\ (sales' # sales \/ profiles' # profiles) =>
             (spc' # spc /\ readerVars' = readerVars)
       /\ readerVars' # readerVars => (sales' = sales /\ profiles' = profiles)
       /\ kpc' = "idle" => kloc' = NoKpiLocals
       /\ rpc' = "idle" => rloc' = NoRegionalLocals
       /\ cpc' = "idle" => cloc' = NoCountryLocals]_vars

\* after a synthesis call, a risk analysis answered with the profiles in
\* another order than the stored one and a country performance answered, the
\* store being as the call left it
C12_Witness ==
    /\ Quiescent
    /\ lastDone.call = 1
    /\ Len(sales) = NAll
    /\ \A k \in 1..Len(sales) : sales[k].id = <<1, k>>
    /\ Len(profiles) = 2
    /\ profiles[1].risk_score < profiles[2].risk_score
    /\ riskResp.served
    /\ riskResp.risk_category = ""
    /\ Len(riskResp.customers) = 2
    /\ riskResp.customers # profiles
    /\ countryResp.served
    /\ countryResp.sales_data = sales

-----------------------------------------------------------------------------
(* get_sales_forecast on a ledger of many months *)

\* range(5000) of the generation loop, scaled down, for the forecast points
NLong == 7

\* the draws of a call made on 2026-01-14: the orders go back a month (30
\* days) each from 2026-01-13 until there are k months, the rest falls into
\* the k-th; 100.00 an order, 250.00 the first
LongDrawSeqs ==
    {[i \in 1..NLong |->
         DrawOf("APAC", 1000, "Global Corp", 729 - 30 * (Min(i, k) - 1),
                IF i = 1 THEN 250000 ELSE 100004, "Paid")] : k \in 1..NLong}

\* the months parameter
LongMonths == {-1, 0, 2}

GenerateLong == GenerateFrom(1, LongDrawSeqs)
RequestLong == \E months \in LongMonths : get_sales_forecast(months)

NextLong ==
    \/ StartOne
    \/ DeleteSales(1)
    \/ DeleteProfiles(1)
    \/ GenerateLong
    \/ InsertSales(1)
    \/ Derive(1)
    \/ InsertProfiles(1)
    \/ RequestLong

SpecLong == InitTrends /\ [][NextLong]_vars

\* the key YYYY-MM of the month of index m
KeyOfMonth(m) ==
    YYYY(m \div 12) \o <<45, Digit(((m % 12) + 1) \div 10), Digit(((m % 12) + 1) % 10)>>

\* C14: a non-empty result of get_sales_forecast on records of n months is
\* min(6, n) actual points, those of the latest months in the order of time,
\* each with actual_revenue and without forecasted_revenue and interval,
\* followed by max(0, months) forecast points, each with forecasted_revenue and
\* interval and without actual_revenue
C14_ForecastPoints ==
    LET data == forecastResp.sales_data
        result == forecastResp.result
        n == Cardinality(MonthsOf(data))
        actuals == Min(6, n)
        forecasts == Max(0, forecastResp.months)
    IN  (forecastResp.served /\ result # <<>>) =>
            /\ Len(result) = actuals + forecasts
            /\ \A j \in 1..Len(result) :
                  /\ result[j].actual_revenue = <<>> \/ result[j].forecasted_revenue = <<>>
                  /\ j <= actuals =>
                        LET m == KthMonth(data, n - actuals + j - 1) IN
                        /\ result[j].period = KeyOfMonth(m)
                        /\ result[j].actual_revenue = <<RevenueOfMonth(data, m)>>
                        /\ result[j].forecasted_revenue = <<>>
                        /\ result[j].confidence_interval = <<>>
                  /\ j > actuals =>
                        /\ result[j].actual_revenue = <<>>
                        /\ result[j].forecasted_revenue # <<>>
                        /\ result[j].confidence_interval # <<>>

\* a request for 2 months on records of 7 months answered with 8 points, the
\* first of them the second month of the records
C14_Witness ==
    /\ forecastResp.served
    /\ forecastResp.months = 2
    /\ Cardinality(MonthsOf(forecastResp.sales_data)) = 7
    /\ Len(forecastResp.result) = 8
    /\ forecastResp.result[1].period = KeyOfMonth(KthMonth(forecastResp.sales_data, 1))
    /\ forecastResp.result[6].actual_revenue # <<>>
    /\ forecastResp.result[7].forecasted_revenue # <<>>

\* a request for no month answered with the actual points alone
C14_NoForecastReached ==
    /\ forecastResp.served
    /\ forecastResp.months = -1
    /\ Len(forecastResp.result) = 4
    /\ forecastResp.result[4].actual_revenue # <<>>

-----------------------------------------------------------------------------
(* The range of the risk score, on one synthesis call *)

\* range(5000) of the generation loop, scaled down, for the range of the score
NScore == 2

\* the draws of one iteration: two customers, an order of two years ago, of a
\* year ago or of yesterday, paid or overdue
ScoreDraws ==
    {DrawOf("APAC", c, "Global Corp", da, 100004, st) :
        c \in {1000, 1001}, da \in {0, 365, 729}, st \in {"Paid", "Overdue"}}

\* the volatility draws random.uniform(0, 30), in hundredths: both ends and
\* the middle
ScoreVols == {0, 1500, 3000}

GenerateScore == GenerateFrom(1, [1..NScore -> ScoreDraws])
DeriveScore == DeriveFrom(1, ScoreVols)

NextScore ==
    \/ StartOne
    \/ DeleteSales(1)
    \/ DeleteProfiles(1)
    \/ GenerateScore
    \/ InsertSales(1)
    \/ DeriveScore
    \/ InsertProfiles(1)

SpecScore == Init /\ [][NextScore]_vars

\* the volatility draws tried against the bound, in hundredths: every whole
\* number and the last hundredths below 30
VolatilityDraws == {100 * k : k \in 0..30} \cup {3000 - j : j \in 1..10}

\* C15, as stated: there is an order history (its last order between
\* start_date and now, of up to NScore orders any number of which is overdue)
\* and a volatility draw for which
\* recency_factor + payment_factor + volatility_factor > 100
C15_CanExceed ==
    \E last_order_date \in (now - HistoryDays)..now :
       \E order_count \in 1..NScore :
          \E overdue_count \in 0..order_count :
             \E v \in VolatilityDraws :
                RLt(RInt(100),
                    risk_score(now - last_order_date,
                               payment_history_score(overdue_count, order_count),
                               Rat(v, 100)))

\* C15, as the code has it: in every pass of the scoring loop recency_factor
\* is at most 30, payment_factor at most 40 and volatility_factor at most 30,
\* and the risk_score, their sum, is at most 100
C15_AtMost100 ==
    \A p \in Synths :
       \A k \in 1..Len(sscore[p]) :
          LET sc == sscore[p][k] IN
          /\ ~RLt(RInt(30), recency_factor(sc.days_since_last_order))
          /\ ~RLt(RInt(40), payment_factor(sc.payment_history_score))
          /\ sc.volatility_factor <= 3000
          /\ ~RLt(RInt(100), sc.risk_score)

\* a customer whose orders are all overdue, the last of them two years old,
\* scored with the volatility draw at its upper end: a risk_score of 100
C15_Witness ==
    \E k \in 1..Len(sscore[1]) :
       LET sc == sscore[1][k] IN
       /\ sc.overdue_count = sc.order_count
       /\ sc.days_since_last_order = HistoryDays
       /\ sc.volatility_factor = 3000
       /\ REq(sc.risk_score, RInt(100))

-----------------------------------------------------------------------------
(* get_sales_forecast at several dates *)

\* range(5000) of the generation loop, scaled down, for the period keys
NKeys == 3

\* the days of the calls: 2025-12-02, 2026-01-14 and 2026-01-31
KeyDays == {20424, 20467, 20484}

\* the draws of a call: orders 31 days apart back from the day before the
\* call, 100.00 an order, the first 100.00 or 250.00
KeyDrawSeqs ==
    {[i \in 1..NKeys |->
         DrawOf("APAC", 1000, "Global Corp", 729 - 31 * (i - 1),
                IF i = 1 THEN rv ELSE 100004, "Paid")] : rv \in {100004, 250000}}

\* the months parameter
KeyMonths == {1, 2, 3}

InitKeys == InitAt(KeyDays)
GenerateKeys == GenerateFrom(1, KeyDrawSeqs)
RequestKeys == \E months \in KeyMonths : get_sales_forecast(months)

NextKeys ==
    \/ StartOne
    \/ DeleteSales(1)
    \/ DeleteProfiles(1)
    \/ GenerateKeys
    \/ InsertSales(1)
    \/ Derive(1)
    \/ InsertProfiles(1)
    \/ RequestKeys

SpecKeys == InitKeys /\ [][NextKeys]_vars

\* the index of the month a key YYYY-MM names
IndexOfKeyMonth(k) ==
    ((k[1] - 48) * 1000 + (k[2] - 48) * 100 + (k[3] - 48) * 10 + (k[4] - 48)) * 12
    + (k[6] - 48) * 10 + (k[7] - 48) - 1

\* C16: in a non-empty result of get_sales_forecast for months >= 1 the
\* period keys are strictly ascending, so pairwise distinct, and the keys of
\* consecutive forecast points are consecutive calendar months
C16_KeysAscend ==
    LET result == forecastResp.result IN
    (forecastResp.served /\ forecastResp.months >= 1 /\ result # <<>>) =>
        \A j \in 1..(Len(result) - 1) :
           /\ IndexOfKeyMonth(result[j].period) < IndexOfKeyMonth(result[j + 1].period)
           /\ (result[j].forecasted_revenue # <<>>
                  /\ result[j + 1].forecasted_revenue # <<>>) =>
                 IndexOfKeyMonth(result[j + 1].period)
                    = IndexOfKeyMonth(result[j].period) + 1

-----------------------------------------------------------------------------
(* The sales collection after overlapping synthesis calls *)

\* the synthesis calls that have records in the sales collection
CallsInSales == {sales[i].id[1] : i \in 1..Len(sales)}

\* the records of call c in the sales collection, in its order
RecordsOfCall(c) == SelectSeq(sales, LAMBDA r : r.id[1] = c)

\* C17, as stated: once two overlapping synthesis calls have both completed,
\* the sales collection holds exactly N records, as after a single call
C17_OverlapLeavesN ==
    (Quiescent /\ lastDone.call # 0 /\ ~lastDone.exclusive) => Len(sales) = N

\* C17, as the code has it: once two overlapping synthesis calls have both
\* completed, the sales collection holds exactly N or exactly 2 * N records:
\* all the N records of one of the calls, or all those of two calls
C17_OverlapLeavesNOr2N ==
    (Quiescent /\ lastDone.call # 0 /\ ~lastDone.exclusive) =>
        /\ Len(sales) \in {N, 2 * N}
        /\ Len(sales) = N * Cardinality(CallsInSales)
        /\ \A c \in CallsInSales :
              /\ Len(RecordsOfCall(c)) = N
              /\ \A i \in 1..N : RecordsOfCall(c)[i].id = <<c, i>>

\* two calls that overlapped have completed and the records of both are there
C17_Witness ==
    /\ Quiescent
    /\ lastDone.call # 0
    /\ ~lastDone.exclusive
    /\ Len(sales) = 2 * N
    /\ Cardinality(CallsInSales) = 2

\* two calls that overlapped have completed and the records of one are there
C17_OneLedgerReached ==
    /\ Quiescent
    /\ lastDone.call # 0
    /\ ~lastDone.exclusive
    /\ Len(sales) = N

=============================================================================
